---- MODULE Spec2Model ----
(***************************************************************************)
(* Backward Differentiation Formulas of orders 1..6 (sources/bdf.py) and   *)
(* the right-hand side of the spectral difference method                   *)
(* (sources/spatial/sd.py).                                                *)
(*                                                                         *)
(* Arrays keep Python's 0-based indices: an array of length n is a         *)
(* function over 0..n-1.  bdf.py names the order i and the loop index k;   *)
(* the model keeps these names.                                            *)
(*                                                                         *)
(* The residuals divide by 3, 11, 25, 137 and 147.  The model evaluates    *)
(* each residual exactly, multiplied by its denominator Den(i), so that    *)
(* every value is an integer.                                              *)
(*                                                                         *)
(* A state of dimension d = 1 is written as its single component, a 1 x 1  *)
(* matrix as its single entry; d = 0 stands for a scalar y0 (len(y0)       *)
(* raises TypeError and y is allocated one-dimensional).                   *)
(***************************************************************************)
EXTENDS Integers, Sequences, FiniteSets, TLC

VARIABLES run, twin, sd

vars == <<run, twin, sd>>

(***************************************************************************)
(* Bounds and input domains                                                *)
(***************************************************************************)
\* Largest number of implicit steps of a run: len(t) <= i + MaxSteps.
MaxSteps == 2

\* Largest number of cells of a mesh.
MaxCells == 3

\* The orders bdf_1 .. bdf_6.
Orders == 1..6

\* The values the root finder may return, and the initial values.
Vals == {0, 1}

\* Right-hand sides f(u, t): "decay" is f = -u, "clock" is f = t.
Fs == {"decay", "clock"}

\* jac argument: None, a callback returning a scalar (a float, which has no
\* shape, or a 0-d value whose shape is ()), or one returning a d x d matrix.
JacKinds == {"none", "scalar", "matrix"}

\* d = 0: scalar y0; d = 1: y0 of size 1.
Dims == {0, 1}

Min(a, b) == IF a < b THEN a ELSE b

\* The caller's f(u, t).  "zero" (f = 0) and "one" (f = 1) are used only to
\* probe a residual from outside.
F(fid, u, tt) ==
    CASE fid = "decay" -> 0 - u
      [] fid = "clock" -> tt
      [] fid = "zero" -> 0
      [] fid = "one" -> 1

\* The caller's jac(u, t), the derivative of f in u.
Jac(fid, u, tt) == IF fid = "decay" THEN 0 - 1 ELSE 0

\* Time grids of n points: unit spacing, with the gap before index g
\* doubled when g > 0 (g = 0: uniform grid).
Grid(n, g) == [j \in 0..(n - 1) |-> IF g > 0 /\ j >= g THEN j + 1 ELSE j]

(***************************************************************************)
(* rk_4 (module rk, not under src/): the explicit bootstrap.  It returns   *)
(* one sample per time point, the first being y0.  Each further sample is  *)
(* an explicit one-step update of the previous one; the update used here   *)
(* is prev + h * f(prev, t), which keeps every sample an integer.          *)
(***************************************************************************)
RECURSIVE rk_4_at(_, _, _, _)
rk_4_at(y0, ts, fid, j) ==
    IF j = 0 THEN y0
    ELSE LET prev == rk_4_at(y0, ts, fid, j - 1)
         IN  prev + (ts[j] - ts[j - 1]) * F(fid, prev, ts[j - 1])

rk_4(y0, ts, fid) == [j \in DOMAIN ts |-> rk_4_at(y0, ts, fid, j)]

(***************************************************************************)
(* The residuals func_to_minimise of bdf_1 .. bdf_6, each times Den(i),    *)
(* the denominator the source divides by.                                  *)
(***************************************************************************)
Den(ord) ==
    CASE ord = 1 -> 1 [] ord = 2 -> 3 [] ord = 3 -> 11
      [] ord = 4 -> 25 [] ord = 5 -> 137 [] ord = 6 -> 147

func_to_minimise_1(fid, u, t0, t1, u0) ==
    u - u0 - (t1 - t0) * F(fid, u, t1)

func_to_minimise_2(fid, u, t1, t2, u0, u1) ==
    3 * u - 4 * u1 + u0 - 2 * (t2 - t1) * F(fid, u, t2)

\* Mutant: the coefficients of the oldest and the newest state exchanged.
func_to_minimise_3_Exchanged(fid, u, t2, t3, u0, u1, u2) ==
    11 * u - 18 * u0 + 9 * u1 - 2 * u2 - 6 * (t3 - t2) * F(fid, u, t3)

func_to_minimise_3(fid, u, t2, t3, u0, u1, u2) ==
    11 * u - 18 * u2 + 9 * u1 - 2 * u0 - 6 * (t3 - t2) * F(fid, u, t3)

func_to_minimise_4(fid, u, t3, t4, u0, u1, u2, u3) ==
    25 * u - 48 * u3 + 36 * u2 - 16 * u1 + 3 * u0
      - 12 * (t4 - t3) * F(fid, u, t4)

func_to_minimise_5(fid, u, t4, t5, u0, u1, u2, u3, u4) ==
    137 * u - 300 * u4 + 300 * u3 - 200 * u2 + 75 * u1 - 12 * u0
      - 60 * (t5 - t4) * F(fid, u, t5)

func_to_minimise_6(fid, u, t5, t6, u0, u1, u2, u3, u4, u5) ==
    147 * u - 360 * u5 + 450 * u4 - 400 * u3 + 225 * u2 - 72 * u1 + 10 * u0
      - 60 * (t6 - t5) * F(fid, u, t6)

(***************************************************************************)
(* The Jacobian wrappers of bdf_1 .. bdf_6, each times Den(i).             *)
(* foo = jac(u, t); np.eye is called with the entries of foo.shape and    *)
(* raises when foo has no shape (a float: AttributeError) or the empty     *)
(* shape (np.eye with no argument: TypeError).                             *)
(***************************************************************************)
\* foo.shape: (1, 1) for a matrix; a scalar has the empty shape or none.
Shape(jk) == IF jk = "matrix" THEN <<1, 1>> ELSE <<>>

\* np.eye called with the entries of shape: the identity, or an exception.
np_eye(shape) == [err |-> Len(shape) = 0, val |-> 1]

jacobian_1(jk, fid, u, t0, t1) ==
    LET eye == np_eye(Shape(jk))
    IN  [err |-> eye.err,
         val |-> eye.val - (t1 - t0) * Jac(fid, u, t1)]

jacobian_2(jk, fid, u, t1, t2) ==
    LET eye == np_eye(Shape(jk))
    IN  [err |-> eye.err,
         val |-> 3 * eye.val - 2 * (t2 - t1) * Jac(fid, u, t2)]

jacobian_3(jk, fid, u, t2, t3) ==
    LET eye == np_eye(Shape(jk))
    IN  [err |-> eye.err,
         val |-> 11 * eye.val - 6 * (t3 - t2) * Jac(fid, u, t3)]

jacobian_4(jk, fid, u, t3, t4) ==
    LET eye == np_eye(Shape(jk))
    IN  [err |-> eye.err,
         val |-> 25 * eye.val - 12 * (t4 - t3) * Jac(fid, u, t4)]

jacobian_5(jk, fid, u, t4, t5) ==
    LET eye == np_eye(Shape(jk))
    IN  [err |-> eye.err,
         val |-> 137 * eye.val - 60 * (t5 - t4) * Jac(fid, u, t5)]

jacobian_6(jk, fid, u, t5, t6) ==
    LET eye == np_eye(Shape(jk))
    IN  [err |-> eye.err,
         val |-> 147 * eye.val - 60 * (t6 - t5) * Jac(fid, u, t6)]

(***************************************************************************)
(* scipy.optimize.root calls func(x, *args) and jac(x, *args): the extra   *)
(* arguments are bound by position.  bdf_i hands its own closures to       *)
(* _bdf_i together with i.                                                 *)
(***************************************************************************)
CallResidual(ord, fid, u, args) ==
    CASE ord = 1 -> func_to_minimise_1(fid, u, args[1], args[2], args[3])
      [] ord = 2 -> func_to_minimise_2(fid, u, args[1], args[2], args[3], args[4])
      [] ord = 3 -> func_to_minimise_3(fid, u, args[1], args[2], args[3], args[4],
                                       args[5])
      [] ord = 4 -> func_to_minimise_4(fid, u, args[1], args[2], args[3], args[4],
                                       args[5], args[6])
      [] ord = 5 -> func_to_minimise_5(fid, u, args[1], args[2], args[3], args[4],
                                       args[5], args[6], args[7])
      [] ord = 6 -> func_to_minimise_6(fid, u, args[1], args[2], args[3], args[4],
                                       args[5], args[6], args[7], args[8])

CallJacobian(ord, jk, fid, u, args) ==
    CASE ord = 1 -> jacobian_1(jk, fid, u, args[1], args[2])
      [] ord = 2 -> jacobian_2(jk, fid, u, args[1], args[2])
      [] ord = 3 -> jacobian_3(jk, fid, u, args[1], args[2])
      [] ord = 4 -> jacobian_4(jk, fid, u, args[1], args[2])
      [] ord = 5 -> jacobian_5(jk, fid, u, args[1], args[2])
      [] ord = 6 -> jacobian_6(jk, fid, u, args[1], args[2])

\* What bdf_i passes as jac to _bdf_i: None when jac is None, else its wrapper.
JacobianArg(jk) == IF jk = "none" THEN "none" ELSE "jacobian"

(***************************************************************************)
(* _bdf_i                                                                  *)
(***************************************************************************)
\* The results scipy.optimize.root may return: any x, converged or not.
FailMessage == "The iteration is not making good progress"

Outcomes ==
    { [x |-> v, success |-> s,
       message |-> IF s THEN "The solution converged." ELSE FailMessage]
      : v \in Vals, s \in BOOLEAN }

NoResult == [x |-> 0, success |-> TRUE, message |-> ""]

NoCall == [guess |-> 0, args |-> <<>>, jac |-> "none", reads |-> {}]

\* A call bdf_i(y0, t, f, jac) on entry of _bdf_i.
Entry(ord, n, d, g, y0, fid, jk) ==
    [i |-> ord, n |-> n, d |-> d, t |-> Grid(n, g), y0 |-> y0, f |-> fid,
     jac |-> jk, cols |-> 0, y |-> [j \in 0..(n - 1) |-> 0], k |-> 0,
     pc |-> "start", call |-> NoCall, result |-> NoResult, warned |-> <<>>,
     written |-> [j \in 0..(n - 1) |-> 0], solves |-> 0, log |-> <<>>]

\* Lines 8-14: allocate y (shape (n, d), or (n,) for a scalar y0), then
\* y[:i] = rk_4(y0, t[:i], f).  The slices y[:i] and t[:i] hold min(i, n)
\* elements.
Bootstrapped(r) ==
    LET m == Min(r.i, r.n)
        b == rk_4(r.y0, [j \in 0..(m - 1) |-> r.t[j]], r.f)
    IN  [r EXCEPT !.cols = r.d,
                  !.y = [j \in 0..(r.n - 1) |-> IF j < m THEN b[j] ELSE 0],
                  !.written = [j \in 0..(r.n - 1) |-> IF j < m THEN 1 ELSE 0],
                  !.k = 0,
                  !.pc = "loop"]

\* Mutant: the loop stops one step early.
LoopBound_Short(r) == r.n - r.i - 1

\* range(n - i): the loop runs for k = 0 .. n - i - 1.
LoopBound(r) == r.n - r.i

\* Line 16: the initial guess y[k + i - 1].
GuessSlot(r) == r.k + r.i - 1

\* Line 17: the indices of the slice y[k:k + i], oldest first.
Window(r) == [m \in 1..r.i |-> r.k + m - 1]

\* Mutant: the times of the two oldest points of the window are passed.
Args_FirstGap(r) ==
    <<r.t[r.k], r.t[r.k + 1]>> \o [m \in 1..r.i |-> r.y[Window(r)[m]]]

\* Line 17: args = (t[k + i - 1], t[k + i], *y[k:k + i]).
Args(r) ==
    <<r.t[r.k + r.i - 1], r.t[r.k + r.i]>>
        \o [m \in 1..r.i |-> r.y[Window(r)[m]]]

\* The slots of y that the call of lines 16-17 reads.
ReadSlots(r) == {GuessSlot(r)} \cup {Window(r)[m] : m \in 1..r.i}

TheCall(r) ==
    [guess |-> r.y[GuessSlot(r)], args |-> Args(r), jac |-> JacobianArg(r.jac),
     reads |-> ReadSlots(r)]

\* The root finder evaluates the Jacobian it is given, first at the guess;
\* an exception of the wrapper leaves root and _bdf_i.
JacobianRaises(r) ==
    /\ JacobianArg(r.jac) # "none"
    /\ CallJacobian(r.i, r.jac, r.f, r.y[GuessSlot(r)], Args(r)).err

\* Lines 16-17: the call of scipy.optimize.root returns out.
Solved(r, out) ==
    [r EXCEPT !.call = TheCall(r), !.result = out, !.solves = @ + 1,
              !.log = Append(@, out), !.pc = "store"]

\* Lines 16-17: the call of scipy.optimize.root raises.
Raised(r) ==
    [r EXCEPT !.call = TheCall(r), !.solves = @ + 1, !.pc = "raised"]

\* Mutant: the root overwrites the newest known sample.
StoreSlot_Previous(r) == r.k + r.i - 1

\* Line 20: the slot that receives result.x.
StoreSlot(r) == r.k + r.i

\* Mutant: a root that did not converge is dropped.
Stored_OnlyIfConverged(r) ==
    [r EXCEPT !.warned = IF r.result.success THEN @
                         ELSE Append(@, r.result.message),
              !.y[StoreSlot(r)] = IF r.result.success THEN r.result.x ELSE @,
              !.written[StoreSlot(r)] = IF r.result.success THEN @ + 1 ELSE @,
              !.k = @ + 1,
              !.pc = "loop"]

\* Lines 18-20: warn when the solve did not succeed, store result.x.
Stored(r) ==
    [r EXCEPT !.warned = IF r.result.success THEN @
                         ELSE Append(@, r.result.message),
              !.y[StoreSlot(r)] = r.result.x,
              !.written[StoreSlot(r)] = @ + 1,
              !.k = @ + 1,
              !.pc = "loop"]

\* Line 21: return y.
Returned(r) == [r EXCEPT !.pc = "returned"]

CanBootstrap(r) == r.pc = "start"
CanSolve(r) == r.pc = "loop" /\ r.k < LoopBound(r)
CanStore(r) == r.pc = "store"
CanReturn(r) == r.pc = "loop" /\ ~(r.k < LoopBound(r))

(***************************************************************************)
(* Exact rational arithmetic for sd.py: <<numerator, denominator>> in      *)
(* lowest terms with a positive denominator.                               *)
(***************************************************************************)
Abs(a) == IF a < 0 THEN 0 - a ELSE a

RECURSIVE Gcd(_, _)
Gcd(a, b) == IF b = 0 THEN a ELSE Gcd(b, a % b)

Rat(a, b) ==
    LET sgn == IF b < 0 THEN 0 - 1 ELSE 1
        g == Gcd(Abs(a), Abs(b))
    IN  <<(sgn * a) \div g, (sgn * b) \div g>>

RInt(a) == <<a, 1>>
RAdd(x, z) == Rat(x[1] * z[2] + z[1] * x[2], x[2] * z[2])
RSub(x, z) == Rat(x[1] * z[2] - z[1] * x[2], x[2] * z[2])
RMul(x, z) == Rat(x[1] * z[1], x[2] * z[2])
RDiv(x, z) == Rat(x[1] * z[2], x[2] * z[1])

\* A 0-based array from a sequence, and its length.
Arr(seq) == [j \in 0..(Len(seq) - 1) |-> seq[j + 1]]
Size(arr) == Cardinality(DOMAIN arr)

\* np.prod and the sum of the first m entries of a 0-based array.
RECURSIVE np_prod(_, _)
np_prod(arr, m) == IF m = 0 THEN RInt(1) ELSE RMul(np_prod(arr, m - 1), arr[m - 1])

RECURSIVE np_sum(_, _)
np_sum(arr, m) == IF m = 0 THEN RInt(0) ELSE RAdd(np_sum(arr, m - 1), arr[m - 1])

\* np.delete(arr, i)
np_delete(arr, i) ==
    [j \in 0..(Size(arr) - 2) |-> IF j < i THEN arr[j] ELSE arr[j + 1]]

\* np.dot(M, v) of a matrix (an array of rows) and a vector.
np_dot(M, v) ==
    [row \in DOMAIN M |->
        np_sum([col \in DOMAIN v |-> RMul(M[row][col], v[col])], Size(v))]

\* arr[a:b] re-indexed from 0.
Slice(arr, a, b) == [j \in 0..(b - a - 1) |-> arr[a + j]]

(***************************************************************************)
(* sd.py: lagrange and d_lagrange                                          *)
(***************************************************************************)
lagrange(x, interpolation_points, i) ==
    LET foo == np_delete(interpolation_points, i)
    IN  np_prod([j \in DOMAIN foo |->
                    RDiv(RSub(x, foo[j]), RSub(interpolation_points[i], foo[j]))],
                Size(foo))

d_lagrange(x, interpolation_points, i) ==
    LET foo == np_delete(interpolation_points, i)
        val == np_sum([k \in DOMAIN foo |->
                          LET rest == np_delete(foo, k)
                          IN  np_prod([j \in DOMAIN rest |-> RSub(x, rest[j])],
                                      Size(rest))],
                      Size(foo))
    IN  RDiv(val,
             np_prod([j \in DOMAIN foo |-> RSub(interpolation_points[i], foo[j])],
                     Size(foo)))

(***************************************************************************)
(* SpatialMethod.__init__ (module spatial.method, not under src/): the     *)
(* mesh holds the n_cell + 1 cell boundaries, c is the transport           *)
(* coefficient, a cell holds p = order + 1 solution points and p + 1 flux  *)
(* points.  The solution points used here are 0 (p = 1) and -1/2, 1/2      *)
(* (p = 2).                                                                *)
(***************************************************************************)
SpatialMethod(mesh, order, conv) ==
    [mesh |-> mesh, n_cell |-> Size(mesh) - 1, p |-> order + 1, c |-> conv,
     cell |-> IF order = 0 THEN Arr(<<RInt(0)>>)
              ELSE Arr(<<Rat(0 - 1, 2), Rat(1, 2)>>)]

\* np.polynomial.legendre.legroots(order * [0] + [1]): the roots of the
\* Legendre polynomial of degree order (none for degree 0, 0 for degree 1).
legroots(order) == IF order = 0 THEN <<>> ELSE <<RInt(0)>>

\* SpectralDifferenceMethod.__init__
SpectralDifferenceMethod(mesh, order, conv) ==
    LET self == SpatialMethod(mesh, order, conv)
        flux_pts == Arr(<<RInt(0 - 1)>> \o legroots(order) \o <<RInt(1)>>)
    IN  [mesh |-> self.mesh, n_cell |-> self.n_cell, p |-> self.p, c |-> self.c,
         cell |-> self.cell, flux_pts |-> flux_pts,
         sol_to_flux |->
            [j \in 0..self.p |-> [i \in 0..(self.p - 1) |->
                lagrange(flux_pts[j], self.cell, i)]],
         flux_to_sol |->
            [i \in 0..(self.p - 1) |-> [j \in 0..self.p |->
                lagrange(self.cell[i], flux_pts, j)]],
         d_in_flux |->
            [i \in 0..self.p |-> [j \in 0..self.p |->
                d_lagrange(flux_pts[i], flux_pts, j)]]]

(***************************************************************************)
(* SpectralDifferenceMethod.rhs                                            *)
(***************************************************************************)
\* np.zeros of length m.
np_zeros(m) == [j \in 0..(m - 1) |-> RInt(0)]

\* Python's index: a negative index counts from the end; an index outside
\* -len .. len-1 raises IndexError.
InBounds(idx, len) == 0 - len <= idx /\ idx < len
At(idx, len) == IF idx < 0 THEN idx + len ELSE idx

\* The number of flux points of the mesh.
NFlux(r) == r.self.n_cell * (r.self.p + 1)

\* A call rhs(y, t) on entry, after lines 33-39.
RhsEntry(self, y) ==
    [self |-> self, y |-> y, pc |-> "sol", i |-> 0,
     sol_in_sol_point |-> np_zeros(Size(y)),
     sol_in_flux_point |-> np_zeros(self.n_cell * (self.p + 1)),
     flux_in_flux_point |-> np_zeros(self.n_cell * (self.p + 1)),
     rhs_in_flux_point |-> np_zeros(self.n_cell * (self.p + 1)),
     rhs_in_sol_point |-> np_zeros(Size(y)),
     before |-> np_zeros(self.n_cell * (self.p + 1)),
     sets |-> [j \in 0..(self.n_cell * (self.p + 1) - 1) |-> 0]]

\* Lines 42-44: the solution in the solution points.
SolInSolPoint(r) ==
    [j \in DOMAIN r.y |->
        LET i == j \div r.self.p
        IN  RDiv(RMul(r.y[j], RInt(2)),
                 RInt(r.self.mesh[i + 1] - r.self.mesh[i]))]

\* Lines 47-50: the solution in the flux points, cell by cell.
SolInFluxPoint(r) ==
    [j \in 0..(NFlux(r) - 1) |->
        LET i == j \div (r.self.p + 1)
        IN  np_dot(r.self.sol_to_flux,
                   Slice(r.sol_in_sol_point, i * r.self.p, (i + 1) * r.self.p))
               [j % (r.self.p + 1)]]

\* Lines 53-55: the flux in the flux points.
FluxInFluxPoint(r) ==
    [j \in 0..(NFlux(r) - 1) |-> RMul(RInt(0 - r.self.c), r.sol_in_flux_point[j])]

\* Lines 59-62: the index written and the index read for cell i.
ContinuityTarget(r) ==
    IF r.self.c > 0 THEN r.i * (r.self.p + 1)
    ELSE (r.i - 1) * (r.self.p + 1) - 1

ContinuitySource(r) ==
    IF r.self.c > 0 THEN r.i * (r.self.p + 1) - 1
    ELSE (r.i - 1) * (r.self.p + 1)

\* Lines 65-67: the derivative of the flux in the flux points.
RhsInFluxPoint(r) ==
    [j \in 0..(NFlux(r) - 1) |->
        LET i == j \div (r.self.p + 1)
        IN  np_dot(r.self.d_in_flux,
                   Slice(r.flux_in_flux_point, i * (r.self.p + 1),
                         (i + 1) * (r.self.p + 1)))
               [j % (r.self.p + 1)]]

\* Lines 70-73: the right-hand side in the solution points.
RhsInSolPoint(r) ==
    [j \in DOMAIN r.y |->
        LET i == j \div r.self.p
        IN  np_dot(r.self.flux_to_sol,
                   Slice(r.rhs_in_flux_point, i * (r.self.p + 1),
                         (i + 1) * (r.self.p + 1)))
               [j % r.self.p]]

(***************************************************************************)
(* One run of bdf_i                                                        *)
(***************************************************************************)
Entries ==
    { Entry(ord, n, d, g, y0, fid, jk) :
        ord \in Orders, n \in 1..(6 + MaxSteps), d \in Dims,
        g \in 0..(5 + MaxSteps), y0 \in {1}, fid \in Fs, jk \in JacKinds }

Idle == Entry(1, 1, 0, 0, 0, "decay", "none")

\* Meshes of n_cell cells of width w, states of n_cell * p values.
Mesh(n_cell, w) == [j \in 0..n_cell |-> j * w]

States(m) == [0..(m - 1) -> {RInt(v) : v \in Vals}]

RhsEntries ==
    UNION { { RhsEntry(SpectralDifferenceMethod(Mesh(n_cell, w), order, conv), y) :
                y \in States(n_cell * (order + 1)) } :
            n_cell \in 1..MaxCells, w \in {1, 2}, order \in {0, 1},
            conv \in {0 - 1, 0, 1} }

RhsIdle == RhsEntry(SpectralDifferenceMethod(Mesh(1, 1), 0, 1), np_zeros(1))

Init ==
    /\ run \in { e \in Entries : e.n <= e.i + MaxSteps }
    /\ twin = Idle
    /\ sd = RhsIdle

Bootstrap ==
    /\ CanBootstrap(run)
    /\ run' = Bootstrapped(run)
    /\ UNCHANGED <<twin, sd>>

Solve ==
    /\ CanSolve(run)
    /\ ~JacobianRaises(run)
    /\ \E out \in Outcomes : run' = Solved(run, out)
    /\ UNCHANGED <<twin, sd>>

SolveRaises ==
    /\ CanSolve(run)
    /\ JacobianRaises(run)
    /\ run' = Raised(run)
    /\ UNCHANGED <<twin, sd>>

Store ==
    /\ CanStore(run)
    /\ run' = Stored(run)
    /\ UNCHANGED <<twin, sd>>

Return ==
    /\ CanReturn(run)
    /\ run' = Returned(run)
    /\ UNCHANGED <<twin, sd>>

Next == Bootstrap \/ Solve \/ SolveRaises \/ Store \/ Return

Spec == Init /\ [][Next]_vars

(***************************************************************************)
(* Two runs of bdf_i, one after the other, on the same grid: what their    *)
(* caller can tell apart.                                                  *)
(***************************************************************************)
InitPair ==
    /\ run \in { e \in Entries :
                   /\ e.n = e.i + MaxSteps /\ e.d = 0 /\ e.f = "decay"
                   /\ e.t = Grid(e.n, 0) /\ e.jac # "matrix" }
    /\ twin = [run EXCEPT !.f = "clock"]
    /\ sd = RhsIdle

FirstRunOver == run.pc \in {"returned", "raised"}

TwinBootstrap ==
    /\ FirstRunOver
    /\ CanBootstrap(twin)
    /\ twin' = Bootstrapped(twin)
    /\ UNCHANGED <<run, sd>>

TwinSolve ==
    /\ FirstRunOver
    /\ CanSolve(twin)
    /\ ~JacobianRaises(twin)
    /\ \E out \in Outcomes : twin' = Solved(twin, out)
    /\ UNCHANGED <<run, sd>>

TwinSolveRaises ==
    /\ FirstRunOver
    /\ CanSolve(twin)
    /\ JacobianRaises(twin)
    /\ twin' = Raised(twin)
    /\ UNCHANGED <<run, sd>>

TwinStore ==
    /\ FirstRunOver
    /\ CanStore(twin)
    /\ twin' = Stored(twin)
    /\ UNCHANGED <<run, sd>>

TwinReturn ==
    /\ FirstRunOver
    /\ CanReturn(twin)
    /\ twin' = Returned(twin)
    /\ UNCHANGED <<run, sd>>

NextPair ==
    \/ Bootstrap \/ Solve \/ SolveRaises \/ Store \/ Return
    \/ TwinBootstrap \/ TwinSolve \/ TwinSolveRaises \/ TwinStore \/ TwinReturn

SpecPair == InitPair /\ [][NextPair]_vars

(***************************************************************************)
(* One call of rhs                                                         *)
(***************************************************************************)
InitRhs ==
    /\ sd \in RhsEntries
    /\ run = Idle
    /\ twin = Idle

\* Lines 42-44
SolPoints ==
    /\ sd.pc = "sol"
    /\ sd' = [sd EXCEPT !.sol_in_sol_point = SolInSolPoint(sd), !.pc = "sol_flux"]
    /\ UNCHANGED <<run, twin>>

\* Lines 47-50
FluxPoints ==
    /\ sd.pc = "sol_flux"
    /\ sd' = [sd EXCEPT !.sol_in_flux_point = SolInFluxPoint(sd), !.pc = "flux"]
    /\ UNCHANGED <<run, twin>>

\* Lines 53-55
Flux ==
    /\ sd.pc = "flux"
    /\ sd' = [sd EXCEPT !.flux_in_flux_point = FluxInFluxPoint(sd),
                        !.before = FluxInFluxPoint(sd),
                        !.i = 0,
                        !.pc = "continuity"]
    /\ UNCHANGED <<run, twin>>

\* Lines 58-62, one cell: the right side is read, then the target is set.
Continuity ==
    /\ sd.pc = "continuity"
    /\ sd.i < sd.self.n_cell
    /\ InBounds(ContinuitySource(sd), NFlux(sd))
    /\ InBounds(ContinuityTarget(sd), NFlux(sd))
    /\ LET src == At(ContinuitySource(sd), NFlux(sd))
           dst == At(ContinuityTarget(sd), NFlux(sd))
       IN  sd' = [sd EXCEPT !.flux_in_flux_point[dst] = sd.flux_in_flux_point[src],
                           !.sets[dst] = @ + 1,
                           !.i = @ + 1]
    /\ UNCHANGED <<run, twin>>

\* Lines 58-62, one cell: an index is out of bounds, rhs ends in IndexError.
ContinuityRaises ==
    /\ sd.pc = "continuity"
    /\ sd.i < sd.self.n_cell
    /\ ~(/\ InBounds(ContinuitySource(sd), NFlux(sd))
         /\ InBounds(ContinuityTarget(sd), NFlux(sd)))
    /\ sd' = [sd EXCEPT !.pc = "raised"]
    /\ UNCHANGED <<run, twin>>

\* Lines 65-67
FluxDerivative ==
    /\ sd.pc = "continuity"
    /\ sd.i >= sd.self.n_cell
    /\ sd' = [sd EXCEPT !.rhs_in_flux_point = RhsInFluxPoint(sd), !.pc = "rhs_sol"]
    /\ UNCHANGED <<run, twin>>

\* Lines 70-75
RhsReturn ==
    /\ sd.pc = "rhs_sol"
    /\ sd' = [sd EXCEPT !.rhs_in_sol_point = RhsInSolPoint(sd), !.pc = "returned"]
    /\ UNCHANGED <<run, twin>>

NextRhs ==
    \/ SolPoints \/ FluxPoints \/ Flux \/ Continuity \/ ContinuityRaises
    \/ FluxDerivative \/ RhsReturn

SpecRhs == InitRhs /\ [][NextRhs]_vars


(***************************************************************************)
(* The standard BDF table: the numerators of c_0 .. c_{k-1} (oldest state  *)
(* first) and of beta over the denominator StdDen(k).                      *)
(***************************************************************************)
StdDen(ord) == <<1, 3, 11, 25, 137, 147>>[ord]

StdC(ord) ==
    << <<1>>,
       <<0 - 1, 4>>,
       <<2, 0 - 9, 18>>,
       <<0 - 3, 16, 0 - 36, 48>>,
       <<12, 0 - 75, 200, 0 - 300, 300>>,
       <<0 - 10, 72, 0 - 225, 400, 0 - 450, 360>> >>[ord]

StdBeta(ord) == <<1, 2, 6, 12, 60, 60>>[ord]

RECURSIVE SumTo(_, _)
SumTo(fn, m) == IF m = 0 THEN 0 ELSE fn[m] + SumTo(fn, m - 1)

\* A solve of step run.k has been invoked and its root is not yet stored.
SolveInvoked == run.pc \in {"store", "raised"}

\* beta * h of the residual handed to the solver, times Den: the residual
\* with f = 0 minus the residual with f = 1.
ResidualStep(r) ==
    CallResidual(r.i, "zero", 0, r.call.args)
        - CallResidual(r.i, "one", 0, r.call.args)

\* beta * h of the Jacobian wrapper, times Den: the wrapper of jac = -1 minus
\* the wrapper of jac = 0.
JacobianStep(r) ==
    CallJacobian(r.i, "matrix", "decay", 0, r.call.args).val
        - CallJacobian(r.i, "matrix", "clock", 0, r.call.args).val

Probes == {0 - 1, 0, 1, 2}

ProbeFs == {"decay", "clock", "zero", "one"}

(***************************************************************************)
(* C1                                                                      *)
(***************************************************************************)
\* C1: on a grid with len(t) < k + 1 (order k) integrate fails and never
\* returns a trajectory.
C1_ShortGridNeverReturns ==
    run.n < run.i + 1 => run.pc # "returned"

(***************************************************************************)
(* C2                                                                      *)
(***************************************************************************)
\* C2: the root of every step whose solve returned, converged or not, is in
\* slot y[step + order]; a run returns only after all n - order steps, and
\* ends otherwise only when the Jacobian wrapper raised, never because a
\* solve did not converge.
C2_StoredAndContinued ==
    /\ \A s \in 1..Len(run.log) :
          s - 1 < run.k =>
             /\ run.y[s - 1 + run.i] = run.log[s].x
             /\ run.written[s - 1 + run.i] = 1
    /\ (run.pc = "returned" /\ run.n >= run.i + 1) =>
          /\ run.k = run.n - run.i
          /\ Len(run.log) = run.n - run.i
    /\ run.pc = "loop" => Len(run.log) = run.k
    /\ run.pc = "raised" => run.jac = "scalar"

\* A returned run whose first solve did not converge, returned a value other
\* than the initial zero, and was followed by a further step.
C2_Witness ==
    /\ run.pc = "returned"
    /\ Len(run.log) >= 2
    /\ ~run.log[1].success
    /\ run.log[1].x = 1
    /\ run.y[run.i] = 1

(***************************************************************************)
(* C4                                                                      *)
(***************************************************************************)
\* C4: from the bootstrap on, on a grid with len(t) >= order, the first
\* `order` samples are those of rk_4(y0, t[0..order-1], f), each written once.
C4_BootstrapKept ==
    (run.pc # "start" /\ run.n >= run.i) =>
        \A j \in 0..(run.i - 1) :
            /\ run.y[j] = rk_4(run.y0, [m \in 0..(run.i - 1) |-> run.t[m]], run.f)[j]
            /\ run.written[j] = 1

\* A returned run of two steps whose first root differs from the newest
\* bootstrap sample.
C4_Witness ==
    /\ run.pc = "returned"
    /\ run.n = run.i + 2
    /\ run.y[run.i] # run.y[run.i - 1]

(***************************************************************************)
(* C6                                                                      *)
(***************************************************************************)
\* C6: no slot is written twice; the written slots are a prefix of the
\* buffer, 0..order-1 after the bootstrap and one more per stored step; when
\* the solve of step k is invoked the slots it reads are written and slot
\* k + order and the later ones are not; the number of solves invoked is the
\* number of steps begun, n - order on return.
C6_MonotoneWriteOnce ==
    /\ \A j \in 0..(run.n - 1) : run.written[j] <= 1
    /\ (run.pc = "loop" /\ run.n >= run.i) =>
          /\ \A j \in 0..(run.n - 1) :
                run.written[j] = (IF j < run.i + run.k THEN 1 ELSE 0)
          /\ run.solves = run.k
    /\ SolveInvoked =>
          /\ \A j \in run.call.reads : j \in 0..(run.n - 1) /\ run.written[j] = 1
          /\ \A j \in 0..(run.n - 1) :
                run.written[j] = (IF j < run.i + run.k THEN 1 ELSE 0)
          /\ run.solves = run.k + 1
    /\ (run.pc = "returned" /\ run.n >= run.i) =>
          /\ run.solves = run.n - run.i
          /\ \A j \in 0..(run.n - 1) : run.written[j] = 1

\* A returned run of two solves.
C6_Witness ==
    /\ run.pc = "returned"
    /\ run.solves = 2
    /\ run.written[run.n - 1] = 1

(***************************************************************************)
(* C7                                                                      *)
(***************************************************************************)
\* C7 as stated: the step size that multiplies f and jac in the residual of
\* step i of order k is t[i+1] - t[i].
C7_StepIsFirstGap ==
    SolveInvoked =>
        LET h == run.t[run.k + 1] - run.t[run.k]
        IN  /\ ResidualStep(run) * StdDen(run.i) = StdBeta(run.i) * h * Den(run.i)
            /\ JacobianStep(run) * StdDen(run.i) = StdBeta(run.i) * h * Den(run.i)

\* C7 amended: the step size that multiplies f and jac in the residual of
\* step i of order k is t[i+k] - t[i+k-1], the gap from the newest known
\* point to the new point.
C7_StepIsLastGap ==
    SolveInvoked =>
        LET h == run.t[run.k + run.i] - run.t[run.k + run.i - 1]
        IN  /\ ResidualStep(run) * StdDen(run.i) = StdBeta(run.i) * h * Den(run.i)
            /\ JacobianStep(run) * StdDen(run.i) = StdBeta(run.i) * h * Den(run.i)

\* A solve of order >= 2 on a grid whose first and last gap of the window
\* differ.
C7_Witness ==
    /\ run.pc = "store"
    /\ run.i >= 2
    /\ run.t[run.k + 1] - run.t[run.k]
         # run.t[run.k + run.i] - run.t[run.k + run.i - 1]

(***************************************************************************)
(* C8                                                                      *)
(***************************************************************************)
\* The residual of the claim at u for step r.k, times StdDen, with h the gap
\* from the newest known point to the new point.
StdResidual(r, fid, u) ==
    StdDen(r.i) * u
      - SumTo([m \in 1..r.i |-> StdC(r.i)[m] * r.y[r.k + m - 1]], r.i)
      - StdBeta(r.i) * (r.t[r.k + r.i] - r.t[r.k + r.i - 1])
          * F(fid, u, r.t[r.k + r.i])

\* C8: the residual handed to the solver at step i of order k is
\* u - sum c_m y[i+m] - beta h f(u, t[i+k]) with the standard BDF table, c_m
\* on the m-th oldest state, and the bound arguments are
\* (t[i+k-1], t[i+k], y[i], ..., y[i+k-1]).
C8_ResidualIsStandard ==
    SolveInvoked =>
        /\ \A u \in Probes : \A fid \in ProbeFs :
              CallResidual(run.i, fid, u, run.call.args) * StdDen(run.i)
                  = StdResidual(run, fid, u) * Den(run.i)
        /\ run.call.args =
              <<run.t[run.k + run.i - 1], run.t[run.k + run.i]>>
                  \o [m \in 1..run.i |-> run.y[run.k + m - 1]]

\* A solve of order 3 whose window holds different oldest and newest states.
C8_Witness ==
    /\ run.pc = "store"
    /\ run.i = 3
    /\ run.f = "clock"
    /\ run.y[run.k] # run.y[run.k + 2]

(***************************************************************************)
(* C9                                                                      *)
(***************************************************************************)
\* C9: with a Jacobian supplied the solver is given I - beta h jac(u, t[i+k])
\* with the beta and h of the residual, without error also when jac returns
\* a scalar; with jac None it is given no Jacobian.
C9_JacobianWrapper ==
    SolveInvoked =>
        IF run.jac = "none" THEN run.call.jac = "none"
        ELSE /\ run.call.jac = "jacobian"
             /\ \A u \in Probes :
                   LET J == CallJacobian(run.i, run.jac, run.f, u, run.call.args)
                   IN  /\ ~J.err
                       /\ J.val = Den(run.i)
                            - ResidualStep(run) * Jac(run.f, u, run.t[run.k + run.i])

(***************************************************************************)
(* C3                                                                      *)
(***************************************************************************)
\* The steps of a run whose solve did not converge.
FailedSteps(r) == {s - 1 : s \in {m \in 1..Len(r.log) : ~r.log[m].success}}

\* C3: a returned run has given its caller one report per non-converged step
\* and none per converged step, and the reports tell which steps failed: two
\* returned runs with the same reports failed at the same steps.
C3_FailedStepsRecoverable ==
    /\ run.pc = "returned" => Len(run.warned) = Cardinality(FailedSteps(run))
    /\ twin.pc = "returned" => Len(twin.warned) = Cardinality(FailedSteps(twin))
    /\ (run.pc = "returned" /\ twin.pc = "returned" /\ run.warned = twin.warned)
          => FailedSteps(run) = FailedSteps(twin)

(***************************************************************************)
(* C5                                                                      *)
(***************************************************************************)
\* C5: with c = 0, rhs never ends in an error and returns the zero vector of
\* the shape of y.
C5_ZeroTransportGivesZero ==
    sd.self.c = 0 =>
        /\ sd.pc # "raised"
        /\ sd.pc = "returned" =>
              /\ DOMAIN sd.rhs_in_sol_point = DOMAIN sd.y
              /\ \A j \in DOMAIN sd.y : sd.rhs_in_sol_point[j] = RInt(0)

(***************************************************************************)
(* C10                                                                     *)
(***************************************************************************)
\* The continuity pass of a call of rhs is over.
ContinuityDone ==
    \/ sd.pc \in {"rhs_sol", "returned"}
    \/ sd.pc = "continuity" /\ sd.i >= sd.self.n_cell

\* C10: with c # 0 no access of the continuity pass falls outside the flux
\* array; after the pass, for c > 0 the left flux point of every cell holds
\* the right flux point of the previous cell (the last cell for the first),
\* for c < 0 the right flux point of every cell holds the left flux point of
\* the next cell (the first cell for the last); every such interface point
\* is set once and no other flux point is changed.
C10_UpwindContinuity ==
    sd.self.c # 0 =>
        /\ sd.pc # "raised"
        /\ ContinuityDone =>
              LET q == sd.self.p + 1
                  N == NFlux(sd)
                  flux == sd.flux_in_flux_point
                  Interface(j) == IF sd.self.c > 0 THEN j % q = 0 ELSE j % q = q - 1
              IN  \A j \in 0..(N - 1) :
                     IF Interface(j)
                     THEN /\ sd.sets[j] = 1
                          /\ flux[j] = IF sd.self.c > 0 THEN flux[(j - 1) % N]
                                       ELSE flux[(j + 1) % N]
                     ELSE /\ sd.sets[j] = 0
                          /\ flux[j] = sd.before[j]

====
